---- MODULE Spec2Model ----
(***************************************************************************)
(* FlyGuide GBIF prep helper (src/flyguide/gbif_prep_from_csv.py).         *)
(*                                                                         *)
(* Text is a sequence of code points.  The model follows main() step by    *)
(* step: argument check, existence check, first-line read, delimiter       *)
(* detection, header resolution through csv.DictReader, the row loop, and  *)
(* the two writes.  The csv reader and writer are modelled character by    *)
(* character for the dialect main() selects (quotechar ", doublequote,     *)
(* QUOTE_MINIMAL, non-strict, lineterminator CR LF).                       *)
(***************************************************************************)
EXTENDS Integers, Sequences, FiniteSets

VARIABLES
    argc,                   \* len(sys.argv)
    in_exists,              \* os.path.exists(in_path)
    in_raw,                 \* content of the input file, before decoding
    f_search,               \* <prefix>_species_search.txt  [exists, data]
    f_kingdom,              \* <prefix>_species_kingdom.tsv [exists, data]
    f0_search,              \* f_search when the current run started
    f0_kingdom,             \* f_kingdom when the current run started
    run,                    \* 1 for the first invocation, 2 for the second
    pc,                     \* position of main()
    exit_code,              \* process exit status, NoExit while running
    err,                    \* which error ended the run, "none" otherwise
    first_line,             \* first_line
    delimiter,              \* delimiter
    fieldnames,             \* fieldnames
    header_end,             \* input position the reader reached after the header
    missing,                \* missing
    col_species,            \* col_species
    col_genus,              \* col_genus
    col_kingdom,            \* col_kingdom
    pos,                    \* input position of the csv reader (next char)
    rows,                   \* rows
    sp,                     \* sp of the last row, then of the last pair taken at line 97
    genus,                  \* genus of the last row
    kingdom,                \* kingdom of the last row
    species_for_search,     \* species_for_search
    species_kingdom_pairs   \* species_kingdom_pairs

vars == <<argc, in_exists, in_raw, f_search, f_kingdom, f0_search, f0_kingdom,
          run, pc, exit_code, err, first_line, delimiter, fieldnames,
          header_end, missing, col_species, col_genus, col_kingdom, pos, rows,
          sp, genus, kingdom, species_for_search, species_kingdom_pairs>>

-----------------------------------------------------------------------------
(* Characters and the names main() uses.                                   *)

TAB == 9
LF == 10
CR == 13
QUOTE == 34
COMMA == 44
BOM == 65279
FieldSizeLimit == 131072
NoDelimiter == 0
NoExit == -1
ExpectedArgc == 3

species == <<115, 112, 101, 99, 105, 101, 115>>
genus_name == <<103, 101, 110, 117, 115>>
kingdom_name == <<107, 105, 110, 103, 100, 111, 109>>
required == <<species, genus_name, kingdom_name>>

\* The code points str.strip() removes (those with str.isspace()).
WhiteSpace ==
    {9, 10, 11, 12, 13, 28, 29, 30, 31, 32, 133, 160, 5760, 8192,
     8193, 8194, 8195, 8196, 8197, 8198, 8199, 8200, 8201, 8202, 8232, 8233, 8239, 8287, 12288}

Min(a, b) == IF a < b THEN a ELSE b

\* The concatenation of a sequence of sequences.
RECURSIVE Flatten(_)
Flatten(ss) ==
    IF Len(ss) = 0 THEN <<>>
    ELSE IF Len(ss) = 1 THEN ss[1]
    ELSE LET half == Len(ss) \div 2
         IN Flatten(SubSeq(ss, 1, half)) \o Flatten(SubSeq(ss, half + 1, Len(ss)))

-----------------------------------------------------------------------------
(* open(in_path, "r", encoding="utf-8-sig"): a leading BOM is dropped, and *)
(* with newline=None every CR LF and every lone CR reads as LF.            *)

StripBOM(s) == IF Len(s) > 0 /\ s[1] = BOM THEN Tail(s) ELSE s

\* An LF right after a CR is dropped, and every CR reads as LF.
TranslateNewlines(s) ==
    LET kept == SelectSeq([i \in 1..Len(s) |-> i],
                          LAMBDA i : ~(s[i] = LF /\ i > 1 /\ s[i - 1] = CR))
    IN [k \in 1..Len(kept) |-> IF s[kept[k]] = CR THEN LF ELSE s[kept[k]]]

ReadText(raw) == TranslateNewlines(StripBOM(raw))

\* Index of the last character of the line that starts at p (p <= Len(text)).
RECURSIVE LineEnd(_, _)
LineEnd(text, p) ==
    IF p >= Len(text) THEN Len(text)
    ELSE IF text[p] = LF THEN p
    ELSE IF text[p] = CR THEN (IF text[p + 1] = LF THEN p + 1 ELSE p)
    ELSE LineEnd(text, p + 1)

\* f_in.readline() on a freshly opened file.
ReadLine(text) == IF text = <<>> THEN <<>> ELSE SubSeq(text, 1, LineEnd(text, 1))

Count(s, c) == Cardinality({i \in 1..Len(s) : s[i] = c})
Contains(s, c) == \E i \in 1..Len(s) : s[i] = c

-----------------------------------------------------------------------------
(* Lines 43-49: the delimiter.                                             *)

DetectDelimiterTieComma(line) ==
    IF Contains(line, TAB) /\ ~Contains(line, COMMA) THEN TAB
    ELSE IF Contains(line, COMMA) /\ ~Contains(line, TAB) THEN COMMA
    ELSE IF Count(line, TAB) > Count(line, COMMA) THEN TAB ELSE COMMA

DetectDelimiter(line) ==
    IF Contains(line, TAB) /\ ~Contains(line, COMMA) THEN TAB
    ELSE IF Contains(line, COMMA) /\ ~Contains(line, TAB) THEN COMMA
    ELSE IF Count(line, TAB) >= Count(line, COMMA) THEN TAB ELSE COMMA

-----------------------------------------------------------------------------
(* csv.reader(f_in, delimiter=delimiter): one record per call, read line   *)
(* by line.  st = [state, field, fields] is the parser's state.            *)

SaveField(st, next) ==
    [state |-> next, field |-> <<>>, fields |-> Append(st.fields, st.field)]

\* parse_add_char: a field that already holds csv.field_size_limit()
\* characters takes no more, the reader raises _csv.Error.
AddChar(st, c, next) ==
    IF Len(st.field) >= FieldSizeLimit THEN [st EXCEPT !.state = "ERROR"]
    ELSE [state |-> next, field |-> Append(st.field, c), fields |-> st.fields]

Goto(st, next) == [st EXCEPT !.state = next]

StartField(st, c, delim) ==
    IF c \in {LF, CR} THEN SaveField(st, "EAT_CRNL")
    ELSE IF c = QUOTE THEN Goto(st, "IN_QUOTED_FIELD")
    ELSE IF c = delim THEN SaveField(st, "START_FIELD")
    ELSE AddChar(st, c, "IN_FIELD")

ProcessChar(st, c, delim) ==
    CASE st.state = "START_RECORD" ->
            IF c \in {LF, CR} THEN Goto(st, "EAT_CRNL")
            ELSE StartField(st, c, delim)
      [] st.state = "START_FIELD" -> StartField(st, c, delim)
      [] st.state = "IN_FIELD" ->
            IF c \in {LF, CR} THEN SaveField(st, "EAT_CRNL")
            ELSE IF c = delim THEN SaveField(st, "START_FIELD")
            ELSE AddChar(st, c, "IN_FIELD")
      [] st.state = "IN_QUOTED_FIELD" ->
            IF c = QUOTE THEN Goto(st, "QUOTE_IN_QUOTED_FIELD")
            ELSE AddChar(st, c, "IN_QUOTED_FIELD")
      [] st.state = "QUOTE_IN_QUOTED_FIELD" ->
            IF c = QUOTE THEN AddChar(st, c, "IN_QUOTED_FIELD")
            ELSE IF c = delim THEN SaveField(st, "START_FIELD")
            ELSE IF c \in {LF, CR} THEN SaveField(st, "EAT_CRNL")
            ELSE AddChar(st, c, "IN_FIELD")
      [] st.state = "EAT_CRNL" ->       \* anything but LF or CR raises _csv.Error
            IF c \in {LF, CR} THEN st ELSE Goto(st, "ERROR")
      [] st.state = "ERROR" -> st

\* The end of a line.
ProcessEOL(st) ==
    CASE st.state \in {"START_RECORD", "EAT_CRNL"} -> Goto(st, "START_RECORD")
      [] st.state \in {"START_FIELD", "IN_FIELD", "QUOTE_IN_QUOTED_FIELD"} ->
            SaveField(st, "START_RECORD")
      [] st.state \in {"IN_QUOTED_FIELD", "ERROR"} -> st

RECURSIVE ParseFrom(_, _, _, _, _)
ParseFrom(text, p, e, st, delim) ==
    IF st.state = "ERROR"
    THEN [ok |-> FALSE, error |-> TRUE, fields |-> <<>>, next |-> p]
    ELSE IF p <= e
    THEN ParseFrom(text, p + 1, e, ProcessChar(st, text[p], delim), delim)
    ELSE LET st2 == ProcessEOL(st) IN
         IF st2.state = "START_RECORD"
         THEN [ok |-> TRUE, error |-> FALSE, fields |-> st2.fields, next |-> e + 1]
         ELSE IF e >= Len(text)     \* end of file inside a quoted field
         THEN [ok |-> TRUE, error |-> FALSE,
               fields |-> Append(st2.fields, st2.field), next |-> e + 1]
         ELSE ParseFrom(text, e + 1, LineEnd(text, e + 1), st2, delim)

\* next(reader) with the reader at position p: ok is a record, error is
\* _csv.Error raised, neither is StopIteration.
ReaderNext(text, p, delim) ==
    IF p > Len(text) THEN [ok |-> FALSE, error |-> FALSE, fields |-> <<>>, next |-> p]
    ELSE ParseFrom(text, p, LineEnd(text, p),
                   [state |-> "START_RECORD", field |-> <<>>, fields |-> <<>>], delim)

\* DictReader.__next__: records without any field are skipped.
RECURSIVE DictNext(_, _, _)
DictNext(text, p, delim) ==
    LET r == ReaderNext(text, p, delim) IN
    IF r.ok /\ r.fields = <<>> THEN DictNext(text, r.next, delim) ELSE r

\* row.get(col, "") or "" for the dict DictReader builds: zip(fieldnames, row)
\* assigns in order, then the names beyond the row's length are set to None,
\* so the last column of that name decides.
RowGet(names, row, col) ==
    LET last == CHOOSE i \in 1..Len(names) :
                    names[i] = col /\ \A j \in (i + 1)..Len(names) : names[j] # col
    IN IF last <= Len(row) THEN row[last] ELSE <<>>

\* str.strip()
RECURSIVE LStrip(_)
LStrip(s) == IF s # <<>> /\ s[1] \in WhiteSpace THEN LStrip(Tail(s)) ELSE s
RECURSIVE RStrip(_)
RStrip(s) ==
    IF s # <<>> /\ s[Len(s)] \in WhiteSpace THEN RStrip(SubSeq(s, 1, Len(s) - 1)) ELSE s
Strip(s) == RStrip(LStrip(s))

\* str.lower().  LowerRanges lists the code points whose lowercase is one
\* other code point, as <<first, last, step, offset>>; U+0130 lowers to two
\* code points, and U+03A3 to the final or the medial sigma by what is
\* around it (CasedRanges, CaseIgnorableRanges: <<first, last>>).
LowerRanges ==
    <<
       <<65, 90, 1, 32>>, <<192, 214, 1, 32>>, <<216, 222, 1, 32>>, <<256, 302, 2, 1>>,
       <<306, 310, 2, 1>>, <<313, 327, 2, 1>>, <<330, 374, 2, 1>>, <<376, 376, 1, -121>>,
       <<377, 381, 2, 1>>, <<385, 385, 1, 210>>, <<386, 388, 2, 1>>, <<390, 390, 1, 206>>,
       <<391, 391, 1, 1>>, <<393, 394, 1, 205>>, <<395, 395, 1, 1>>, <<398, 398, 1, 79>>,
       <<399, 399, 1, 202>>, <<400, 400, 1, 203>>, <<401, 401, 1, 1>>, <<403, 403, 1, 205>>,
       <<404, 404, 1, 207>>, <<406, 406, 1, 211>>, <<407, 407, 1, 209>>, <<408, 408, 1, 1>>,
       <<412, 412, 1, 211>>, <<413, 413, 1, 213>>, <<415, 415, 1, 214>>, <<416, 420, 2, 1>>,
       <<422, 422, 1, 218>>, <<423, 423, 1, 1>>, <<425, 425, 1, 218>>, <<428, 428, 1, 1>>,
       <<430, 430, 1, 218>>, <<431, 431, 1, 1>>, <<433, 434, 1, 217>>, <<435, 437, 2, 1>>,
       <<439, 439, 1, 219>>, <<440, 440, 1, 1>>, <<444, 444, 1, 1>>, <<452, 452, 1, 2>>,
       <<453, 453, 1, 1>>, <<455, 455, 1, 2>>, <<456, 456, 1, 1>>, <<458, 458, 1, 2>>,
       <<459, 475, 2, 1>>, <<478, 494, 2, 1>>, <<497, 497, 1, 2>>, <<498, 500, 2, 1>>,
       <<502, 502, 1, -97>>, <<503, 503, 1, -56>>, <<504, 542, 2, 1>>, <<544, 544, 1, -130>>,
       <<546, 562, 2, 1>>, <<570, 570, 1, 10795>>, <<571, 571, 1, 1>>, <<573, 573, 1, -163>>,
       <<574, 574, 1, 10792>>, <<577, 577, 1, 1>>, <<579, 579, 1, -195>>, <<580, 580, 1, 69>>,
       <<581, 581, 1, 71>>, <<582, 590, 2, 1>>, <<880, 882, 2, 1>>, <<886, 886, 1, 1>>,
       <<895, 895, 1, 116>>, <<902, 902, 1, 38>>, <<904, 906, 1, 37>>, <<908, 908, 1, 64>>,
       <<910, 911, 1, 63>>, <<913, 929, 1, 32>>, <<932, 939, 1, 32>>, <<975, 975, 1, 8>>,
       <<984, 1006, 2, 1>>, <<1012, 1012, 1, -60>>, <<1015, 1015, 1, 1>>, <<1017, 1017, 1, -7>>,
       <<1018, 1018, 1, 1>>, <<1021, 1023, 1, -130>>, <<1024, 1039, 1, 80>>, <<1040, 1071, 1, 32>>,
       <<1120, 1152, 2, 1>>, <<1162, 1214, 2, 1>>, <<1216, 1216, 1, 15>>, <<1217, 1229, 2, 1>>,
       <<1232, 1326, 2, 1>>, <<1329, 1366, 1, 48>>, <<4256, 4293, 1, 7264>>, <<4295, 4295, 1, 7264>>,
       <<4301, 4301, 1, 7264>>, <<5024, 5103, 1, 38864>>, <<5104, 5109, 1, 8>>, <<7312, 7354, 1, -3008>>,
       <<7357, 7359, 1, -3008>>, <<7680, 7828, 2, 1>>, <<7838, 7838, 1, -7615>>, <<7840, 7934, 2, 1>>,
       <<7944, 7951, 1, -8>>, <<7960, 7965, 1, -8>>, <<7976, 7983, 1, -8>>, <<7992, 7999, 1, -8>>,
       <<8008, 8013, 1, -8>>, <<8025, 8031, 2, -8>>, <<8040, 8047, 1, -8>>, <<8072, 8079, 1, -8>>,
       <<8088, 8095, 1, -8>>, <<8104, 8111, 1, -8>>, <<8120, 8121, 1, -8>>, <<8122, 8123, 1, -74>>,
       <<8124, 8124, 1, -9>>, <<8136, 8139, 1, -86>>, <<8140, 8140, 1, -9>>, <<8152, 8153, 1, -8>>,
       <<8154, 8155, 1, -100>>, <<8168, 8169, 1, -8>>, <<8170, 8171, 1, -112>>, <<8172, 8172, 1, -7>>,
       <<8184, 8185, 1, -128>>, <<8186, 8187, 1, -126>>, <<8188, 8188, 1, -9>>, <<8486, 8486, 1, -7517>>,
       <<8490, 8490, 1, -8383>>, <<8491, 8491, 1, -8262>>, <<8498, 8498, 1, 28>>, <<8544, 8559, 1, 16>>,
       <<8579, 8579, 1, 1>>, <<9398, 9423, 1, 26>>, <<11264, 11311, 1, 48>>, <<11360, 11360, 1, 1>>,
       <<11362, 11362, 1, -10743>>, <<11363, 11363, 1, -3814>>, <<11364, 11364, 1, -10727>>, <<11367, 11371, 2, 1>>,
       <<11373, 11373, 1, -10780>>, <<11374, 11374, 1, -10749>>, <<11375, 11375, 1, -10783>>, <<11376, 11376, 1, -10782>>,
       <<11378, 11378, 1, 1>>, <<11381, 11381, 1, 1>>, <<11390, 11391, 1, -10815>>, <<11392, 11490, 2, 1>>,
       <<11499, 11501, 2, 1>>, <<11506, 11506, 1, 1>>, <<42560, 42604, 2, 1>>, <<42624, 42650, 2, 1>>,
       <<42786, 42798, 2, 1>>, <<42802, 42862, 2, 1>>, <<42873, 42875, 2, 1>>, <<42877, 42877, 1, -35332>>,
       <<42878, 42886, 2, 1>>, <<42891, 42891, 1, 1>>, <<42893, 42893, 1, -42280>>, <<42896, 42898, 2, 1>>,
       <<42902, 42920, 2, 1>>, <<42922, 42922, 1, -42308>>, <<42923, 42923, 1, -42319>>, <<42924, 42924, 1, -42315>>,
       <<42925, 42925, 1, -42305>>, <<42926, 42926, 1, -42308>>, <<42928, 42928, 1, -42258>>, <<42929, 42929, 1, -42282>>,
       <<42930, 42930, 1, -42261>>, <<42931, 42931, 1, 928>>, <<42932, 42946, 2, 1>>, <<42948, 42948, 1, -48>>,
       <<42949, 42949, 1, -42307>>, <<42950, 42950, 1, -35384>>, <<42951, 42953, 2, 1>>, <<42960, 42960, 1, 1>>,
       <<42966, 42968, 2, 1>>, <<42997, 42997, 1, 1>>, <<65313, 65338, 1, 32>>, <<66560, 66599, 1, 40>>,
       <<66736, 66771, 1, 40>>, <<66928, 66938, 1, 39>>, <<66940, 66954, 1, 39>>, <<66956, 66962, 1, 39>>,
       <<66964, 66965, 1, 39>>, <<68736, 68786, 1, 64>>, <<71840, 71871, 1, 32>>, <<93760, 93791, 1, 32>>,
       <<125184, 125217, 1, 34>>
    >>

CasedRanges ==
    <<
       <<65, 90>>, <<97, 122>>, <<170, 170>>, <<181, 181>>, <<186, 186>>, <<192, 214>>,
       <<216, 246>>, <<248, 442>>, <<444, 447>>, <<452, 659>>, <<661, 696>>, <<704, 705>>,
       <<736, 740>>, <<837, 837>>, <<880, 883>>, <<886, 887>>, <<890, 893>>, <<895, 895>>,
       <<902, 902>>, <<904, 906>>, <<908, 908>>, <<910, 929>>, <<931, 1013>>, <<1015, 1153>>,
       <<1162, 1327>>, <<1329, 1366>>, <<1376, 1416>>, <<4256, 4293>>, <<4295, 4295>>, <<4301, 4301>>,
       <<4304, 4346>>, <<4349, 4351>>, <<5024, 5109>>, <<5112, 5117>>, <<7296, 7304>>, <<7312, 7354>>,
       <<7357, 7359>>, <<7424, 7615>>, <<7680, 7957>>, <<7960, 7965>>, <<7968, 8005>>, <<8008, 8013>>,
       <<8016, 8023>>, <<8025, 8025>>, <<8027, 8027>>, <<8029, 8029>>, <<8031, 8061>>, <<8064, 8116>>,
       <<8118, 8124>>, <<8126, 8126>>, <<8130, 8132>>, <<8134, 8140>>, <<8144, 8147>>, <<8150, 8155>>,
       <<8160, 8172>>, <<8178, 8180>>, <<8182, 8188>>, <<8305, 8305>>, <<8319, 8319>>, <<8336, 8348>>,
       <<8450, 8450>>, <<8455, 8455>>, <<8458, 8467>>, <<8469, 8469>>, <<8473, 8477>>, <<8484, 8484>>,
       <<8486, 8486>>, <<8488, 8488>>, <<8490, 8493>>, <<8495, 8500>>, <<8505, 8505>>, <<8508, 8511>>,
       <<8517, 8521>>, <<8526, 8526>>, <<8544, 8575>>, <<8579, 8580>>, <<9398, 9449>>, <<11264, 11492>>,
       <<11499, 11502>>, <<11506, 11507>>, <<11520, 11557>>, <<11559, 11559>>, <<11565, 11565>>, <<42560, 42605>>,
       <<42624, 42653>>, <<42786, 42887>>, <<42891, 42894>>, <<42896, 42954>>, <<42960, 42961>>, <<42963, 42963>>,
       <<42965, 42969>>, <<42997, 42998>>, <<43000, 43002>>, <<43824, 43866>>, <<43868, 43880>>, <<43888, 43967>>,
       <<64256, 64262>>, <<64275, 64279>>, <<65313, 65338>>, <<65345, 65370>>, <<66560, 66639>>, <<66736, 66771>>,
       <<66776, 66811>>, <<66928, 66938>>, <<66940, 66954>>, <<66956, 66962>>, <<66964, 66965>>, <<66967, 66977>>,
       <<66979, 66993>>, <<66995, 67001>>, <<67003, 67004>>, <<67456, 67456>>, <<67459, 67461>>, <<67463, 67504>>,
       <<67506, 67514>>, <<68736, 68786>>, <<68800, 68850>>, <<71840, 71903>>, <<93760, 93823>>, <<119808, 119892>>,
       <<119894, 119964>>, <<119966, 119967>>, <<119970, 119970>>, <<119973, 119974>>, <<119977, 119980>>, <<119982, 119993>>,
       <<119995, 119995>>, <<119997, 120003>>, <<120005, 120069>>, <<120071, 120074>>, <<120077, 120084>>, <<120086, 120092>>,
       <<120094, 120121>>, <<120123, 120126>>, <<120128, 120132>>, <<120134, 120134>>, <<120138, 120144>>, <<120146, 120485>>,
       <<120488, 120512>>, <<120514, 120538>>, <<120540, 120570>>, <<120572, 120596>>, <<120598, 120628>>, <<120630, 120654>>,
       <<120656, 120686>>, <<120688, 120712>>, <<120714, 120744>>, <<120746, 120770>>, <<120772, 120779>>, <<122624, 122633>>,
       <<122635, 122654>>, <<125184, 125251>>, <<127280, 127305>>, <<127312, 127337>>, <<127344, 127369>>
    >>

CaseIgnorableRanges ==
    <<
       <<39, 39>>, <<46, 46>>, <<58, 58>>, <<94, 94>>, <<96, 96>>, <<168, 168>>,
       <<173, 173>>, <<175, 175>>, <<180, 180>>, <<183, 184>>, <<688, 879>>, <<884, 885>>,
       <<890, 890>>, <<900, 901>>, <<903, 903>>, <<1155, 1161>>, <<1369, 1369>>, <<1375, 1375>>,
       <<1425, 1469>>, <<1471, 1471>>, <<1473, 1474>>, <<1476, 1477>>, <<1479, 1479>>, <<1524, 1524>>,
       <<1536, 1541>>, <<1552, 1562>>, <<1564, 1564>>, <<1600, 1600>>, <<1611, 1631>>, <<1648, 1648>>,
       <<1750, 1757>>, <<1759, 1768>>, <<1770, 1773>>, <<1807, 1807>>, <<1809, 1809>>, <<1840, 1866>>,
       <<1958, 1968>>, <<2027, 2037>>, <<2042, 2042>>, <<2045, 2045>>, <<2070, 2093>>, <<2137, 2139>>,
       <<2184, 2184>>, <<2192, 2193>>, <<2200, 2207>>, <<2249, 2306>>, <<2362, 2362>>, <<2364, 2364>>,
       <<2369, 2376>>, <<2381, 2381>>, <<2385, 2391>>, <<2402, 2403>>, <<2417, 2417>>, <<2433, 2433>>,
       <<2492, 2492>>, <<2497, 2500>>, <<2509, 2509>>, <<2530, 2531>>, <<2558, 2558>>, <<2561, 2562>>,
       <<2620, 2620>>, <<2625, 2626>>, <<2631, 2632>>, <<2635, 2637>>, <<2641, 2641>>, <<2672, 2673>>,
       <<2677, 2677>>, <<2689, 2690>>, <<2748, 2748>>, <<2753, 2757>>, <<2759, 2760>>, <<2765, 2765>>,
       <<2786, 2787>>, <<2810, 2815>>, <<2817, 2817>>, <<2876, 2876>>, <<2879, 2879>>, <<2881, 2884>>,
       <<2893, 2893>>, <<2901, 2902>>, <<2914, 2915>>, <<2946, 2946>>, <<3008, 3008>>, <<3021, 3021>>,
       <<3072, 3072>>, <<3076, 3076>>, <<3132, 3132>>, <<3134, 3136>>, <<3142, 3144>>, <<3146, 3149>>,
       <<3157, 3158>>, <<3170, 3171>>, <<3201, 3201>>, <<3260, 3260>>, <<3263, 3263>>, <<3270, 3270>>,
       <<3276, 3277>>, <<3298, 3299>>, <<3328, 3329>>, <<3387, 3388>>, <<3393, 3396>>, <<3405, 3405>>,
       <<3426, 3427>>, <<3457, 3457>>, <<3530, 3530>>, <<3538, 3540>>, <<3542, 3542>>, <<3633, 3633>>,
       <<3636, 3642>>, <<3654, 3662>>, <<3761, 3761>>, <<3764, 3772>>, <<3782, 3782>>, <<3784, 3789>>,
       <<3864, 3865>>, <<3893, 3893>>, <<3895, 3895>>, <<3897, 3897>>, <<3953, 3966>>, <<3968, 3972>>,
       <<3974, 3975>>, <<3981, 3991>>, <<3993, 4028>>, <<4038, 4038>>, <<4141, 4144>>, <<4146, 4151>>,
       <<4153, 4154>>, <<4157, 4158>>, <<4184, 4185>>, <<4190, 4192>>, <<4209, 4212>>, <<4226, 4226>>,
       <<4229, 4230>>, <<4237, 4237>>, <<4253, 4253>>, <<4348, 4348>>, <<4957, 4959>>, <<5906, 5908>>,
       <<5938, 5939>>, <<5970, 5971>>, <<6002, 6003>>, <<6068, 6069>>, <<6071, 6077>>, <<6086, 6086>>,
       <<6089, 6099>>, <<6103, 6103>>, <<6109, 6109>>, <<6155, 6159>>, <<6211, 6211>>, <<6277, 6278>>,
       <<6313, 6313>>, <<6432, 6434>>, <<6439, 6440>>, <<6450, 6450>>, <<6457, 6459>>, <<6679, 6680>>,
       <<6683, 6683>>, <<6742, 6742>>, <<6744, 6750>>, <<6752, 6752>>, <<6754, 6754>>, <<6757, 6764>>,
       <<6771, 6780>>, <<6783, 6783>>, <<6823, 6823>>, <<6832, 6862>>, <<6912, 6915>>, <<6964, 6964>>,
       <<6966, 6970>>, <<6972, 6972>>, <<6978, 6978>>, <<7019, 7027>>, <<7040, 7041>>, <<7074, 7077>>,
       <<7080, 7081>>, <<7083, 7085>>, <<7142, 7142>>, <<7144, 7145>>, <<7149, 7149>>, <<7151, 7153>>,
       <<7212, 7219>>, <<7222, 7223>>, <<7288, 7293>>, <<7376, 7378>>, <<7380, 7392>>, <<7394, 7400>>,
       <<7405, 7405>>, <<7412, 7412>>, <<7416, 7417>>, <<7468, 7530>>, <<7544, 7544>>, <<7579, 7679>>,
       <<8125, 8125>>, <<8127, 8129>>, <<8141, 8143>>, <<8157, 8159>>, <<8173, 8175>>, <<8189, 8190>>,
       <<8203, 8207>>, <<8216, 8217>>, <<8228, 8228>>, <<8231, 8231>>, <<8234, 8238>>, <<8288, 8292>>,
       <<8294, 8303>>, <<8305, 8305>>, <<8319, 8319>>, <<8336, 8348>>, <<8400, 8432>>, <<11388, 11389>>,
       <<11503, 11505>>, <<11631, 11631>>, <<11647, 11647>>, <<11744, 11775>>, <<11823, 11823>>, <<12293, 12293>>,
       <<12330, 12333>>, <<12337, 12341>>, <<12347, 12347>>, <<12441, 12446>>, <<12540, 12542>>, <<40981, 40981>>,
       <<42232, 42237>>, <<42508, 42508>>, <<42607, 42610>>, <<42612, 42621>>, <<42623, 42623>>, <<42652, 42655>>,
       <<42736, 42737>>, <<42752, 42785>>, <<42864, 42864>>, <<42888, 42890>>, <<42994, 42996>>, <<43000, 43001>>,
       <<43010, 43010>>, <<43014, 43014>>, <<43019, 43019>>, <<43045, 43046>>, <<43052, 43052>>, <<43204, 43205>>,
       <<43232, 43249>>, <<43263, 43263>>, <<43302, 43309>>, <<43335, 43345>>, <<43392, 43394>>, <<43443, 43443>>,
       <<43446, 43449>>, <<43452, 43453>>, <<43471, 43471>>, <<43493, 43494>>, <<43561, 43566>>, <<43569, 43570>>,
       <<43573, 43574>>, <<43587, 43587>>, <<43596, 43596>>, <<43632, 43632>>, <<43644, 43644>>, <<43696, 43696>>,
       <<43698, 43700>>, <<43703, 43704>>, <<43710, 43711>>, <<43713, 43713>>, <<43741, 43741>>, <<43756, 43757>>,
       <<43763, 43764>>, <<43766, 43766>>, <<43867, 43871>>, <<43881, 43883>>, <<44005, 44005>>, <<44008, 44008>>,
       <<44013, 44013>>, <<64286, 64286>>, <<64434, 64450>>, <<65024, 65039>>, <<65043, 65043>>, <<65056, 65071>>,
       <<65106, 65106>>, <<65109, 65109>>, <<65279, 65279>>, <<65287, 65287>>, <<65294, 65294>>, <<65306, 65306>>,
       <<65342, 65342>>, <<65344, 65344>>, <<65392, 65392>>, <<65438, 65439>>, <<65507, 65507>>, <<65529, 65531>>,
       <<66045, 66045>>, <<66272, 66272>>, <<66422, 66426>>, <<67456, 67461>>, <<67463, 67504>>, <<67506, 67514>>,
       <<68097, 68099>>, <<68101, 68102>>, <<68108, 68111>>, <<68152, 68154>>, <<68159, 68159>>, <<68325, 68326>>,
       <<68900, 68903>>, <<69291, 69292>>, <<69446, 69456>>, <<69506, 69509>>, <<69633, 69633>>, <<69688, 69702>>,
       <<69744, 69744>>, <<69747, 69748>>, <<69759, 69761>>, <<69811, 69814>>, <<69817, 69818>>, <<69821, 69821>>,
       <<69826, 69826>>, <<69837, 69837>>, <<69888, 69890>>, <<69927, 69931>>, <<69933, 69940>>, <<70003, 70003>>,
       <<70016, 70017>>, <<70070, 70078>>, <<70089, 70092>>, <<70095, 70095>>, <<70191, 70193>>, <<70196, 70196>>,
       <<70198, 70199>>, <<70206, 70206>>, <<70367, 70367>>, <<70371, 70378>>, <<70400, 70401>>, <<70459, 70460>>,
       <<70464, 70464>>, <<70502, 70508>>, <<70512, 70516>>, <<70712, 70719>>, <<70722, 70724>>, <<70726, 70726>>,
       <<70750, 70750>>, <<70835, 70840>>, <<70842, 70842>>, <<70847, 70848>>, <<70850, 70851>>, <<71090, 71093>>,
       <<71100, 71101>>, <<71103, 71104>>, <<71132, 71133>>, <<71219, 71226>>, <<71229, 71229>>, <<71231, 71232>>,
       <<71339, 71339>>, <<71341, 71341>>, <<71344, 71349>>, <<71351, 71351>>, <<71453, 71455>>, <<71458, 71461>>,
       <<71463, 71467>>, <<71727, 71735>>, <<71737, 71738>>, <<71995, 71996>>, <<71998, 71998>>, <<72003, 72003>>,
       <<72148, 72151>>, <<72154, 72155>>, <<72160, 72160>>, <<72193, 72202>>, <<72243, 72248>>, <<72251, 72254>>,
       <<72263, 72263>>, <<72273, 72278>>, <<72281, 72283>>, <<72330, 72342>>, <<72344, 72345>>, <<72752, 72758>>,
       <<72760, 72765>>, <<72767, 72767>>, <<72850, 72871>>, <<72874, 72880>>, <<72882, 72883>>, <<72885, 72886>>,
       <<73009, 73014>>, <<73018, 73018>>, <<73020, 73021>>, <<73023, 73029>>, <<73031, 73031>>, <<73104, 73105>>,
       <<73109, 73109>>, <<73111, 73111>>, <<73459, 73460>>, <<78896, 78904>>, <<92912, 92916>>, <<92976, 92982>>,
       <<92992, 92995>>, <<94031, 94031>>, <<94095, 94111>>, <<94176, 94177>>, <<94179, 94180>>, <<110576, 110579>>,
       <<110581, 110587>>, <<110589, 110590>>, <<113821, 113822>>, <<113824, 113827>>, <<118528, 118573>>, <<118576, 118598>>,
       <<119143, 119145>>, <<119155, 119170>>, <<119173, 119179>>, <<119210, 119213>>, <<119362, 119364>>, <<121344, 121398>>,
       <<121403, 121452>>, <<121461, 121461>>, <<121476, 121476>>, <<121499, 121503>>, <<121505, 121519>>, <<122880, 122886>>,
       <<122888, 122904>>, <<122907, 122913>>, <<122915, 122916>>, <<122918, 122922>>, <<123184, 123197>>, <<123566, 123566>>,
       <<123628, 123631>>, <<125136, 125142>>, <<125252, 125259>>, <<127995, 127999>>, <<917505, 917505>>, <<917536, 917631>>,
       <<917760, 917999>>
    >>

InRanges(c, ranges) == \E i \in 1..Len(ranges) : ranges[i][1] <= c /\ c <= ranges[i][2]

IsCased(c) == InRanges(c, CasedRanges)

IsCaseIgnorable(c) == InRanges(c, CaseIgnorableRanges)

LowerChar(c) ==
    IF c < 128 THEN (IF c \in 65..90 THEN c + 32 ELSE c)
    ELSE LET hits == {i \in 1..Len(LowerRanges) :
                        /\ LowerRanges[i][1] <= c /\ c <= LowerRanges[i][2]
                        /\ (c - LowerRanges[i][1]) % LowerRanges[i][3] = 0}
         IN IF hits = {} THEN c ELSE c + LowerRanges[CHOOSE i \in hits : TRUE][4]

\* handle_capital_sigma: final when the nearest character before it that is
\* not case-ignorable is cased and the nearest such character after it is not.
FinalSigma(s, i) ==
    LET before == {j \in 1..(i - 1) : ~IsCaseIgnorable(s[j])}
        after == {j \in (i + 1)..Len(s) : ~IsCaseIgnorable(s[j])}
    IN /\ before # {}
       /\ IsCased(s[CHOOSE j \in before : \A k \in before : k <= j])
       /\ after # {} => ~IsCased(s[CHOOSE j \in after : \A k \in after : j <= k])

LowerAt(s, i) ==
    IF s[i] = 931 THEN (IF FinalSigma(s, i) THEN <<962>> ELSE <<963>>)
    ELSE IF s[i] = 304 THEN <<105, 775>>
    ELSE <<LowerChar(s[i])>>

Lower(s) == Flatten([i \in 1..Len(s) |-> LowerAt(s, i)])

-----------------------------------------------------------------------------
(* Lines 53-69: the header.                                                *)

\* lower_map = {name.lower(): name for name in fieldnames}
LowerMapExact(names) ==
    [k \in {names[i] : i \in 1..Len(names)} |->
        names[CHOOSE i \in 1..Len(names) :
                 names[i] = k /\ \A j \in (i + 1)..Len(names) : names[j] # k]]

LowerMap(names) ==
    [k \in {Lower(names[i]) : i \in 1..Len(names)} |->
        names[CHOOSE i \in 1..Len(names) :
                 Lower(names[i]) = k
                 /\ \A j \in (i + 1)..Len(names) : Lower(names[j]) # k]]

\* missing = [c for c in required if c not in lower_map]
Missing(lower_map) == SelectSeq(required, LAMBDA c : c \notin DOMAIN lower_map)

-----------------------------------------------------------------------------
(* Lines 78-87: what one row adds to the two sets.                         *)

AddNameUnguarded(names, s, g) == IF s # <<>> THEN names \cup {s} ELSE names \cup {g}

AddName(names, s, g) ==
    IF s # <<>> THEN names \cup {s}
    ELSE IF g # <<>> THEN names \cup {g}
    ELSE names

AddPairWithGenus(pairs, s, g, k) ==
    IF s # <<>> /\ k # <<>> THEN pairs \cup {<<s, k>>}
    ELSE IF s = <<>> /\ g # <<>> /\ k # <<>> THEN pairs \cup {<<g, k>>}
    ELSE pairs

AddPair(pairs, s, g, k) ==
    IF s # <<>> /\ k # <<>> THEN pairs \cup {<<s, k>>} ELSE pairs

-----------------------------------------------------------------------------
(* sorted(): str compares by code point, tuples component by component.    *)

StrLess(a, b) ==
    \E i \in 1..(Min(Len(a), Len(b)) + 1) :
        /\ \A j \in 1..(i - 1) : a[j] = b[j]
        /\ \/ i > Len(a) /\ i <= Len(b)
           \/ i <= Len(a) /\ i <= Len(b) /\ a[i] < b[i]

PairLess(p, q) == StrLess(p[1], q[1]) \/ (p[1] = q[1] /\ StrLess(p[2], q[2]))

RECURSIVE SortedNames(_)
SortedNames(S) ==
    IF S = {} THEN <<>>
    ELSE LET m == CHOOSE x \in S : \A y \in S \ {x} : StrLess(x, y)
         IN <<m>> \o SortedNames(S \ {m})

RECURSIVE SortedPairs(_)
SortedPairs(S) ==
    IF S = {} THEN <<>>
    ELSE LET m == CHOOSE x \in S : \A y \in S \ {x} : PairLess(x, y)
         IN <<m>> \o SortedPairs(S \ {m})

-----------------------------------------------------------------------------
(* Lines 89-98: the two writers.                                           *)

\* open(path, "w"): the file exists and is empty.
OpenAppend(f) == [exists |-> TRUE, data |-> f.data]

OpenW(f) == [exists |-> TRUE, data |-> <<>>]

\* encoding="utf-8": the bytes of one code point, and of a text.
Utf8Char(c) ==
    IF c < 128 THEN <<c>>
    ELSE IF c < 2048 THEN <<192 + (c \div 64), 128 + (c % 64)>>
    ELSE IF c < 65536
    THEN <<224 + (c \div 4096), 128 + ((c \div 64) % 64), 128 + (c % 64)>>
    ELSE <<240 + (c \div 262144), 128 + ((c \div 4096) % 64),
           128 + ((c \div 64) % 64), 128 + (c % 64)>>

Utf8Encode(text) == Flatten([i \in 1..Len(text) |-> Utf8Char(text[i])])

\* f_out.write(text), as the bytes that reach the file
WriteTo(f, text) == [f EXCEPT !.data = f.data \o Utf8Encode(text)]

\* the bytes that reached the file before a write failed
WriteBytes(f, bytes) == [f EXCEPT !.data = f.data \o bytes]

\* for name in sorted(species_for_search): f_out.write(name + "\n")
SearchText(names) ==
    LET s == SortedNames(names) IN Flatten([i \in 1..Len(s) |-> s[i] \o <<LF>>])

\* csv.writer's field encoder: a double quote is doubled, and the field is
\* quoted when it holds the delimiter, a double quote, CR or LF.
RECURSIVE JoinAppendData(_, _)
JoinAppendData(field, delim) ==
    IF field = <<>> THEN [out |-> <<>>, quoted |-> FALSE]
    ELSE LET c == Head(field)
             r == JoinAppendData(Tail(field), delim)
         IN [out    |-> (IF c = QUOTE THEN <<QUOTE, QUOTE>> ELSE <<c>>) \o r.out,
             quoted |-> r.quoted \/ c \in {delim, QUOTE, CR, LF}]

WriterFieldRaw(field, delim) == field

WriterField(field, delim) ==
    LET r == JoinAppendData(field, delim)
    IN IF r.quoted THEN <<QUOTE>> \o r.out \o <<QUOTE>> ELSE r.out

\* writer.writerow([sp, kd]) with delimiter TAB and the default lineterminator
WriteRow(row) ==
    WriterField(row[1], TAB) \o <<TAB>> \o WriterField(row[2], TAB) \o <<CR, LF>>

KingdomText(pairs) ==
    LET s == SortedPairs(pairs) IN Flatten([i \in 1..Len(s) |-> WriteRow(s[i])])

\* What a failed write can leave behind of n bytes: any proper prefix.
PartialLengths(n) == 0..(n - 1)

\* The bytes of the first i records of the kingdom file.
KingdomBytes(s, i) == Utf8Encode(Flatten([j \in 1..i |-> WriteRow(s[j])]))

\* Line 97 binds the local name sp to the species of each pair in turn: sp
\* after i pairs have been taken, sp as it was when none has.
LoopSpecies(s, i, old) == IF i = 0 THEN old ELSE s[i][1]

-----------------------------------------------------------------------------
(* The inputs that are explored.                                             *)

MaxRows == 2        \* data lines after a resolving header
MaxShort == 3       \* length of the exhaustively enumerated short inputs

RECURSIVE Join(_, _)
Join(cells, d) ==
    IF cells = <<>> THEN <<>>
    ELSE IF Len(cells) = 1 THEN cells[1]
    ELSE cells[1] \o <<d>> \o Join(Tail(cells), d)

\* Cell texts as they stand in the file.
c_b == <<98>>
c_g == <<103>>
c_K == <<75>>
c_a_padded == <<32, 97, 8195>>          \* a between a space and U+2003
c_e_padded == <<12288, 233, 32>>        \* U+00E9 between U+3000 and a space
c_blank == <<32, 8232>>                 \* a space and U+2028
c_tabbed == <<QUOTE, 98, TAB, 99, QUOTE>>               \* "b<TAB>c"
c_multiline == <<QUOTE, 97, QUOTE, QUOTE, LF, 99, QUOTE>>  \* "a""<LF>c"
c_open_quote == <<QUOTE, 98>>                           \* "b  (never closed)
c_extra == <<120>>
c_filler == <<122, 122>>
c_filler2 == <<121, 121>>

\* <<species cell, genus cell, kingdom cell>> of the data lines.
Cells ==
    { <<c_b, c_g, c_K>>,
      <<c_b, c_g, c_e_padded>>,
      <<c_a_padded, <<>>, <<>>>>,
      <<<<>>, c_g, c_K>>,
      <<<<>>, c_blank, <<>>>>,
      <<c_tabbed, c_g, c_K>>,
      <<c_multiline, <<>>, c_K>>,
      <<c_open_quote, c_g, c_K>> }

\* A data line: the cells, and how many of the laid-out cells are written
\* ("blank": none, "short": all but the last, "full": all, "long": one more).
DataLines ==
    {[cells |-> c, cut |-> "full"] : c \in Cells}
    \cup {[cells |-> <<c_b, c_g, c_K>>, cut |-> x] : x \in {"blank", "short", "long"}}

\* The headers that resolve, with the column order their data lines follow.
Formats ==
    { [header |-> <<species, genus_name, kingdom_name>>,
       order |-> "sgk", delim |-> COMMA, eol |-> <<LF>>, bom |-> <<>>],
      \* BOM Kingdom<TAB>species<TAB>GENUS<TAB>Species<TAB>Species CR LF,
      \* the K of Kingdom being U+212A
      [header |-> << <<8490, 105, 110, 103, 100, 111, 109>>, species,
                     <<71, 69, 78, 85, 83>>,
                     <<83, 112, 101, 99, 105, 101, 115>>,
                     <<83, 112, 101, 99, 105, 101, 115>> >>,
       order |-> "kzgys", delim |-> TAB, eol |-> <<CR, LF>>, bom |-> <<BOM>>] }

LayOut(fmt, c) ==
    IF fmt.order = "sgk" THEN <<c[1], c[2], c[3]>> ELSE <<c[3], c_filler, c[2], c_filler2, c[1]>>

RawLine(fmt, line) ==
    LET all == LayOut(fmt, line.cells) \o <<c_extra>>
        n == CASE line.cut = "blank" -> 0
               [] line.cut = "short" -> Len(all) - 2
               [] line.cut = "full" -> Len(all) - 1
               [] line.cut = "long" -> Len(all)
    IN Join(SubSeq(all, 1, n), fmt.delim) \o fmt.eol

RawFile(fmt, lines) ==
    fmt.bom \o Join(fmt.header, fmt.delim) \o fmt.eol
    \o Flatten([i \in 1..Len(lines) |-> RawLine(fmt, lines[i])])

ResolvingInputs ==
    {RawFile(fmt, lines) :
        fmt \in Formats, lines \in UNION {[1..n -> DataLines] : n \in 0..MaxRows}}

\* Headers that do not resolve, each followed by the line b,g,K.
taxon == <<116, 97, 120, 111, 110>>
data_bgK == <<98, COMMA, 103, COMMA, 75, LF>>
std_header == Join(<<species, genus_name, kingdom_name>>, COMMA) \o <<LF>>

RejectedInputs ==
    { Join(<<taxon, genus_name, kingdom_name>>, COMMA) \o <<LF>> \o data_bgK,
      <<LF>> \o std_header \o data_bgK,                       \* blank first line
      <<LF, LF>> \o std_header \o data_bgK,
      <<32>> \o std_header \o data_bgK,                       \* " species"
      \* SPEC<U+0130>ES,GENUS<U+03A3>,kingdom
      <<83, 80, 69, 67, 304, 69, 83, COMMA, 71, 69, 78, 85, 83, 931, COMMA>>
          \o kingdom_name \o <<LF>> \o data_bgK,
      <<QUOTE, TAB, LF, QUOTE, COMMA>> \o std_header \o data_bgK,  \* "<TAB><LF>",species,...
      <<QUOTE, 120, LF, 121, QUOTE, COMMA>> \o std_header \o data_bgK,
      species \o <<COMMA>> \o genus_name \o <<TAB>> \o kingdom_name \o <<TAB, 120, LF>>,
      species \o <<TAB>> \o genus_name \o <<COMMA>> \o kingdom_name \o <<COMMA, 120, LF>> }

ShortAlphabet == {TAB, COMMA, LF, QUOTE, 97}
ShortInputs == UNION {[1..n -> ShortAlphabet] : n \in 0..MaxShort}

Inputs == ResolvingInputs \cup RejectedInputs \cup ShortInputs

NoFile == [exists |-> FALSE, data |-> <<>>]
OldFile == [exists |-> TRUE, data |-> <<111, 108, 100, LF>>]   \* "old<LF>"

-----------------------------------------------------------------------------
(* The state machine.                                                      *)

Text == ReadText(in_raw)

FreshLocals ==
    /\ pc = "start"
    /\ exit_code = NoExit
    /\ err = "none"
    /\ first_line = <<>>
    /\ delimiter = NoDelimiter
    /\ fieldnames = <<>>
    /\ header_end = 0
    /\ missing = <<>>
    /\ col_species = <<>>
    /\ col_genus = <<>>
    /\ col_kingdom = <<>>
    /\ pos = 0
    /\ rows = 0
    /\ sp = <<>>
    /\ genus = <<>>
    /\ kingdom = <<>>
    /\ species_for_search = {}
    /\ species_kingdom_pairs = {}

Init ==
    /\ \/ argc = ExpectedArgc /\ in_exists = TRUE /\ in_raw \in Inputs
       \/ argc = ExpectedArgc /\ in_exists = FALSE /\ in_raw = <<>>
       \/ argc \in {1, 2, 4} /\ in_exists \in BOOLEAN /\ in_raw = std_header
    /\ f_search \in {NoFile, OldFile}
    /\ f_kingdom = f_search
    /\ f0_search = f_search
    /\ f0_kingdom = f_kingdom
    /\ run = 1
    /\ FreshLocals

input == <<argc, in_exists, in_raw>>
files == <<f_search, f_kingdom>>
header_vars == <<first_line, delimiter, fieldnames, header_end, missing,
                 col_species, col_genus, col_kingdom, pos>>
row_vars == <<rows, sp, genus, kingdom, species_for_search, species_kingdom_pairs>>
\* row_vars without sp, which the loop of line 97 binds again
kept_row_vars == <<rows, genus, kingdom, species_for_search, species_kingdom_pairs>>
run_vars == <<run, f0_search, f0_kingdom>>

\* sys.exit(code), or an uncaught exception (status 1)
Exit(code, why) == pc' = "exit" /\ exit_code' = code /\ err' = why

Continue(next) == pc' = next /\ UNCHANGED <<exit_code, err>>

\* Lines 15-24
CheckArgs ==
    /\ pc = "start"
    /\ IF argc # ExpectedArgc THEN Exit(1, "usage") ELSE Continue("check_exists")
    /\ UNCHANGED <<input, files, run_vars, header_vars, row_vars>>

\* Lines 26-34
CheckExistsCreatingOutputs ==
    /\ pc = "check_exists"
    /\ IF ~in_exists THEN Exit(1, "not_found") ELSE Continue("read_first_line")
    /\ f_search' = OpenW(f_search)
    /\ f_kingdom' = OpenW(f_kingdom)
    /\ UNCHANGED <<input, run_vars, header_vars, row_vars>>

CheckExists ==
    /\ pc = "check_exists"
    /\ IF ~in_exists THEN Exit(1, "not_found") ELSE Continue("read_first_line")
    /\ UNCHANGED <<input, files, run_vars, header_vars, row_vars>>

\* Lines 37-41
ReadFirstLine ==
    /\ pc = "read_first_line"
    /\ first_line' = ReadLine(Text)
    /\ IF first_line' = <<>> THEN Exit(1, "empty") ELSE Continue("detect")
    /\ UNCHANGED <<input, files, run_vars, row_vars, delimiter, fieldnames,
                   header_end, missing, col_species, col_genus, col_kingdom, pos>>

\* Lines 43-49
Detect ==
    /\ pc = "detect"
    /\ delimiter' = DetectDelimiter(first_line)
    /\ Continue("resolve")
    /\ UNCHANGED <<input, files, run_vars, row_vars, first_line, fieldnames,
                   header_end, missing, col_species, col_genus, col_kingdom, pos>>

\* Lines 51-69
ResolveColumns ==
    /\ pc = "resolve"
    /\ LET r == ReaderNext(Text, 1, delimiter)
           names == IF r.ok THEN r.fields ELSE <<>>
           lower_map == LowerMap(names)
       IN IF r.error          \* reader.fieldnames raises _csv.Error
          THEN /\ Exit(1, "csv_error")
               /\ UNCHANGED <<fieldnames, header_end, pos, missing,
                              col_species, col_genus, col_kingdom>>
          ELSE /\ fieldnames' = names
               /\ header_end' = r.next - 1
               /\ pos' = r.next
               /\ missing' = Missing(lower_map)
               /\ IF missing' # <<>>
                  THEN /\ Exit(1, "missing_columns")
                       /\ UNCHANGED <<col_species, col_genus, col_kingdom>>
                  ELSE /\ col_species' = lower_map[species]
                       /\ col_genus' = lower_map[genus_name]
                       /\ col_kingdom' = lower_map[kingdom_name]
                       /\ Continue("aggregate")
    /\ UNCHANGED <<input, files, run_vars, row_vars, first_line, delimiter>>

\* Lines 72-87, one iteration
ProcessRow ==
    /\ pc = "aggregate"
    /\ LET r == DictNext(Text, pos, delimiter) IN
       /\ r.ok \/ r.error
       /\ IF r.error         \* next(reader) raises _csv.Error
          THEN /\ Exit(1, "csv_error")
               /\ UNCHANGED <<pos, row_vars>>
          ELSE /\ pos' = r.next
               /\ rows' = rows + 1
               /\ sp' = Strip(RowGet(fieldnames, r.fields, col_species))
               /\ genus' = Strip(RowGet(fieldnames, r.fields, col_genus))
               /\ kingdom' = Strip(RowGet(fieldnames, r.fields, col_kingdom))
               /\ species_for_search' = AddName(species_for_search, sp', genus')
               /\ species_kingdom_pairs' =
                     AddPair(species_kingdom_pairs, sp', genus', kingdom')
               /\ Continue("aggregate")
    /\ UNCHANGED <<input, files, run_vars, first_line, delimiter, fieldnames,
                   header_end, missing, col_species, col_genus, col_kingdom>>

\* Line 72, the reader is exhausted
EndRows ==
    /\ pc = "aggregate"
    /\ LET r == DictNext(Text, pos, delimiter) IN ~r.ok /\ ~r.error /\ pos' = r.next
    /\ Continue("write_search")
    /\ UNCHANGED <<input, files, run_vars, row_vars, first_line, delimiter,
                   fieldnames, header_end, missing, col_species, col_genus,
                   col_kingdom>>

\* Lines 90-92
WriteSearch ==
    /\ pc = "write_search"
    /\ f_search' = WriteTo(OpenW(f_search), SearchText(species_for_search))
    /\ Continue("write_kingdom")
    /\ UNCHANGED <<input, f_kingdom, run_vars, header_vars, row_vars>>

\* Lines 90-92 with an OSError from open() or from a write: the exception
\* is not caught, the interpreter exits with status 1.
WriteSearchFailsAndGoesOn ==
    /\ pc = "write_search"
    /\ UNCHANGED f_search
    /\ Continue("write_kingdom")
    /\ UNCHANGED <<input, f_kingdom, run_vars, header_vars, row_vars>>

WriteSearchFails ==
    /\ pc = "write_search"
    /\ \/ UNCHANGED f_search
       \/ LET bytes == Utf8Encode(SearchText(species_for_search)) IN
          \E k \in PartialLengths(Len(bytes)) :
             f_search' = WriteBytes(OpenW(f_search), SubSeq(bytes, 1, k))
    /\ Exit(1, "io_search")
    /\ UNCHANGED <<input, f_kingdom, run_vars, header_vars, row_vars>>

\* Lines 95-98
WriteKingdom ==
    /\ pc = "write_kingdom"
    /\ f_kingdom' = WriteTo(OpenW(f_kingdom), KingdomText(species_kingdom_pairs))
    /\ LET s == SortedPairs(species_kingdom_pairs) IN sp' = LoopSpecies(s, Len(s), sp)
    /\ Continue("report")
    /\ UNCHANGED <<input, f_search, run_vars, header_vars, kept_row_vars>>

\* Lines 95-98 with an OSError: from open(), and then the loop has not run;
\* or from a flush while pair i is written or when the file is closed after
\* the last pair, and then the file holds a proper prefix of its bytes that
\* does not go beyond record i.
WriteKingdomFails ==
    /\ pc = "write_kingdom"
    /\ \/ UNCHANGED <<f_kingdom, sp>>
       \/ LET s == SortedPairs(species_kingdom_pairs)
              bytes == KingdomBytes(s, Len(s))
          IN \E i \in 1..Len(s) :
                \E k \in PartialLengths(Len(bytes)) :
                   /\ k <= Len(KingdomBytes(s, i))
                   /\ f_kingdom' = WriteBytes(OpenW(f_kingdom), SubSeq(bytes, 1, k))
                   /\ sp' = LoopSpecies(s, i, sp)
    /\ Exit(1, "io_kingdom")
    /\ UNCHANGED <<input, f_search, run_vars, header_vars, kept_row_vars>>

\* Lines 100-105 and the return from main()
Report ==
    /\ pc = "report"
    /\ Exit(0, "none")
    /\ UNCHANGED <<input, files, run_vars, header_vars, row_vars>>

\* The program is started again with the same arguments after a run that
\* succeeded; the files are what the first run left.
Rerun ==
    /\ pc = "exit"
    /\ exit_code = 0
    /\ run = 1
    /\ run' = 2
    /\ f0_search' = f_search
    /\ f0_kingdom' = f_kingdom
    /\ pc' = "start" /\ exit_code' = NoExit /\ err' = "none"
    /\ first_line' = <<>> /\ delimiter' = NoDelimiter /\ fieldnames' = <<>>
    /\ header_end' = 0 /\ missing' = <<>> /\ pos' = 0
    /\ col_species' = <<>> /\ col_genus' = <<>> /\ col_kingdom' = <<>>
    /\ rows' = 0 /\ sp' = <<>> /\ genus' = <<>> /\ kingdom' = <<>>
    /\ species_for_search' = {} /\ species_kingdom_pairs' = {}
    /\ UNCHANGED <<input, files>>

Next ==
    \/ CheckArgs
    \/ CheckExists
    \/ ReadFirstLine
    \/ Detect
    \/ ResolveColumns
    \/ ProcessRow
    \/ EndRows
    \/ WriteSearch
    \/ WriteSearchFails
    \/ WriteKingdom
    \/ WriteKingdomFails
    \/ Report
    \/ Rerun

Spec == Init /\ [][Next]_vars

-----------------------------------------------------------------------------
(* Vocabulary of the properties.                                           *)

Range(seq) == {seq[i] : i \in 1..Len(seq)}

Succeeded == pc = "exit" /\ exit_code = 0

\* The header has been read and checked.
Resolved ==
    \/ pc \in {"aggregate", "write_search", "write_kingdom", "report"}
    \/ pc = "exit" /\ err \in {"none", "missing_columns", "io_search", "io_kingdom"}

\* Every record the reader yields from position p on.
RECURSIVE ReadAll(_, _, _)
ReadAll(text, p, delim) ==
    LET r == ReaderNext(text, p, delim)
    IN IF r.ok THEN <<r.fields>> \o ReadAll(text, r.next, delim) ELSE <<>>

\* The rows of the input: the records after the header that have a field.
InputRows == SelectSeq(ReadAll(Text, header_end + 1, delimiter), LAMBDA r : r # <<>>)

Trimmed(row, col) == Strip(RowGet(fieldnames, row, col))
RowSpecies(row) == Trimmed(row, col_species)
RowGenus(row) == Trimmed(row, col_genus)
RowKingdom(row) == Trimmed(row, col_kingdom)

ExpectedNames ==
    {RowSpecies(r) : r \in {x \in Range(InputRows) : RowSpecies(x) # <<>>}}
    \cup {RowGenus(r) : r \in {x \in Range(InputRows) :
                                  RowSpecies(x) = <<>> /\ RowGenus(x) # <<>>}}

ExpectedPairs ==
    {<<RowSpecies(r), RowKingdom(r)>> :
        r \in {x \in Range(InputRows) : RowSpecies(x) # <<>> /\ RowKingdom(x) # <<>>}}

\* The lines of a text file: the pieces that end at each LF, and what
\* follows the last LF if anything does.
RECURSIVE SplitLines(_, _)
SplitLines(text, cur) ==
    IF text = <<>> THEN (IF cur = <<>> THEN <<>> ELSE <<cur>>)
    ELSE IF Head(text) = LF THEN <<cur>> \o SplitLines(Tail(text), <<>>)
    ELSE SplitLines(Tail(text), Append(cur, Head(text)))

Lines(text) == SplitLines(text, <<>>)

\* The text that a file's bytes spell in UTF-8.
RECURSIVE Utf8Decode(_)
Utf8Decode(b) ==
    IF b = <<>> THEN <<>>
    ELSE LET h == Head(b)
             n == IF h < 128 THEN 1 ELSE IF h < 224 THEN 2 ELSE IF h < 240 THEN 3 ELSE 4
             c == CASE n = 1 -> h
                    [] n = 2 -> (h - 192) * 64 + (b[2] - 128)
                    [] n = 3 -> (h - 224) * 4096 + (b[2] - 128) * 64 + (b[3] - 128)
                    [] n = 4 -> (h - 240) * 262144 + (b[2] - 128) * 4096
                                + (b[3] - 128) * 64 + (b[4] - 128)
         IN <<c>> \o Utf8Decode(SubSeq(b, n + 1, Len(b)))

AscendingNames(seq) == \A i \in 1..(Len(seq) - 1) : StrLess(seq[i], seq[i + 1])

AscendingPairs(seq) == \A i \in 1..(Len(seq) - 1) : PairLess(seq[i], seq[i + 1])

-----------------------------------------------------------------------------
(* C1: for every input whose header resolves, the lines of the search file *)
(* are exactly the trimmed species of the rows that have one and the       *)
(* trimmed genus of the rows that have a genus and no species, each once,  *)
(* in ascending code-point order.                                          *)
C1_SearchFileLines ==
    Succeeded =>
        /\ f_search.exists
        /\ Range(Lines(Utf8Decode(f_search.data))) = ExpectedNames
        /\ AscendingNames(Lines(Utf8Decode(f_search.data)))

-----------------------------------------------------------------------------
(* C2: the records of the kingdom file, read as tab-separated values, are  *)
(* exactly the pairs <<trimmed species, trimmed kingdom>> of the rows      *)
(* where both are non-empty, each once, ascending by species then kingdom; *)
(* a row with an empty species never gives a pair.                         *)
C2_KingdomFilePairs ==
    Succeeded =>
        LET recs == ReadAll(Utf8Decode(f_kingdom.data), 1, TAB) IN
        /\ f_kingdom.exists
        /\ \A i \in 1..Len(recs) : Len(recs[i]) = 2
        /\ Range(recs) = ExpectedPairs
        /\ AscendingPairs(recs)
        /\ \A p \in species_kingdom_pairs :
              \E r \in Range(InputRows) : RowSpecies(r) = p[1] /\ RowKingdom(r) = p[2]

C2_Witness ==
    /\ Succeeded
    /\ species_kingdom_pairs # {}
    /\ \E r \in Range(InputRows) :
          RowSpecies(r) = <<>> /\ RowGenus(r) # <<>> /\ RowKingdom(r) # <<>>

-----------------------------------------------------------------------------
(* C3: the delimiter chosen from a non-empty first line is tab when the    *)
(* line has a tab and no comma, comma when it has a comma and no tab, and  *)
(* otherwise the more frequent of the two, tab when the counts are equal.  *)
C3_DelimiterChoice ==
    pc \notin {"start", "check_exists", "read_first_line", "detect"} /\ first_line # <<>> =>
        LET t == Count(first_line, TAB)
            c == Count(first_line, COMMA)
        IN /\ (t > 0 /\ c = 0) => delimiter = TAB
           /\ (c > 0 /\ t = 0) => delimiter = COMMA
           /\ ((t > 0 /\ c > 0) \/ (t = 0 /\ c = 0)) =>
                 /\ t > c => delimiter = TAB
                 /\ c > t => delimiter = COMMA
                 /\ t = c => delimiter = TAB

C3_Witness ==
    /\ pc = "resolve"
    /\ Count(first_line, TAB) > 0
    /\ Count(first_line, TAB) = Count(first_line, COMMA)
    /\ delimiter = TAB

-----------------------------------------------------------------------------
(* C4: a run that ends in a usage, not-found, empty-input or missing-column *)
(* error exits with status 1 and has left both output files as they were   *)
(* when it started, at every point up to there; status 0 is reached only   *)
(* when none of these errors arose.                                        *)
PreWriteErrors == {"usage", "not_found", "empty", "missing_columns"}

HeaderHas(c) == \E i \in 1..Len(fieldnames) : Lower(fieldnames[i]) = c

C4_PreWriteErrors ==
    /\ err \in PreWriteErrors =>
          pc = "exit" /\ exit_code = 1 /\ f_search = f0_search /\ f_kingdom = f0_kingdom
    /\ pc \in {"start", "check_exists", "read_first_line", "detect", "resolve",
               "aggregate", "write_search"} \/ err = "csv_error" =>
          f_search = f0_search /\ f_kingdom = f0_kingdom
    /\ exit_code = 0 =>
          /\ argc = ExpectedArgc
          /\ in_exists
          /\ Text # <<>>
          /\ \A i \in 1..Len(required) : HeaderHas(required[i])

C4_Witness ==
    /\ pc = "exit"
    /\ err = "missing_columns"
    /\ exit_code = 1
    /\ f_search = OldFile
    /\ f_kingdom = OldFile

-----------------------------------------------------------------------------
(* C5: the header resolves exactly when each of species, genus and kingdom *)
(* is the lowercase form of some header field; otherwise the run fails     *)
(* with the missing list holding exactly the required names no header      *)
(* field lowercases to, in the order species, genus, kingdom, and the      *)
(* found list is the header as the reader returned it.                     *)
C5_ColumnResolution ==
    Resolved =>
        /\ (err # "missing_columns") <=> (\A i \in 1..Len(required) : HeaderHas(required[i]))
        /\ missing = SelectSeq(required, LAMBDA c : ~HeaderHas(c))
        /\ err = "missing_columns" => exit_code = 1 /\ missing # <<>>
        /\ fieldnames = ReaderNext(Text, 1, delimiter).fields
        /\ err # "missing_columns" =>
              /\ Lower(col_species) = species /\ col_species \in Range(fieldnames)
              /\ Lower(col_genus) = genus_name /\ col_genus \in Range(fieldnames)
              /\ Lower(col_kingdom) = kingdom_name /\ col_kingdom \in Range(fieldnames)

C5_Witness ==
    /\ pc = "exit"
    /\ err = "missing_columns"
    /\ missing = <<species, genus_name>>
    /\ Len(fieldnames) = 3

-----------------------------------------------------------------------------
(* C6: a second run on the same input and prefix that succeeds leaves both *)
(* output files exactly as the first run left them.                        *)
C6_SecondRunSameFiles ==
    run = 2 /\ Succeeded => f_search = f0_search /\ f_kingdom = f0_kingdom

C6_Witness ==
    /\ run = 2
    /\ Succeeded
    /\ f_search.data # <<>>
    /\ f_kingdom.data # <<>>

-----------------------------------------------------------------------------
(* C7: the line the delimiter is chosen from is the header: the text the   *)
(* reader consumed for the header record is the first line of the file.    *)
C7_FirstLineIsHeader ==
    Resolved => SubSeq(Text, 1, header_end) = first_line

-----------------------------------------------------------------------------
(* C8: the search file is written first and the kingdom file second; a     *)
(* failure on the kingdom file ends the run with a non-zero status and     *)
(* leaves the search file complete; a failure on the search file ends the  *)
(* run before the kingdom file is opened; a failed run takes no further    *)
(* step.                                                                   *)
SearchFileComplete ==
    f_search = [exists |-> TRUE, data |-> Utf8Encode(SearchText(species_for_search))]

C8_WriteOrder ==
    /\ pc = "write_search" => f_search = f0_search /\ f_kingdom = f0_kingdom
    /\ pc \in {"write_kingdom", "report"} => SearchFileComplete
    /\ pc = "write_kingdom" => f_kingdom = f0_kingdom
    /\ err = "io_kingdom" => pc = "exit" /\ exit_code = 1 /\ SearchFileComplete
    /\ err = "io_search" => pc = "exit" /\ exit_code = 1 /\ f_kingdom = f0_kingdom
    /\ err \in {"io_search", "io_kingdom"} => ~ENABLED Next

C8_Witness ==
    /\ err = "io_kingdom"
    /\ f_search.data # <<>>
    /\ f_kingdom # f0_kingdom

-----------------------------------------------------------------------------
(* C9 as stated: every pair is one line made of the species text, a tab    *)
(* and the kingdom text, unchanged, whatever characters they hold.         *)
VerbatimText(eol) ==
    LET s == SortedPairs(species_kingdom_pairs)
    IN Flatten([i \in 1..Len(s) |-> s[i][1] \o <<TAB>> \o s[i][2] \o eol])

C9_VerbatimLines ==
    Succeeded =>
        \/ f_kingdom.data = Utf8Encode(VerbatimText(<<CR, LF>>))
        \/ f_kingdom.data = Utf8Encode(VerbatimText(<<LF>>))

(* C9 as amended: every pair is one record, species field, tab, kingdom    *)
(* field, CR LF, without a header row; a field is written unchanged unless *)
(* it holds a tab, a double quote, CR or LF, and is then put between       *)
(* double quotes with every double quote in it doubled.                    *)
NeedsQuotes(s) == \E i \in 1..Len(s) : s[i] \in {TAB, QUOTE, CR, LF}

Doubled(s) ==
    Flatten([i \in 1..Len(s) |-> IF s[i] = QUOTE THEN <<QUOTE, QUOTE>> ELSE <<s[i]>>])

Encoded(s) == IF NeedsQuotes(s) THEN <<QUOTE>> \o Doubled(s) \o <<QUOTE>> ELSE s

C9_QuotedRecords ==
    Succeeded =>
        LET s == SortedPairs(species_kingdom_pairs)
        IN f_kingdom.data =
              Utf8Encode(Flatten([i \in 1..Len(s) |->
                  Encoded(s[i][1]) \o <<TAB>> \o Encoded(s[i][2]) \o <<CR, LF>>]))

C9_Witness ==
    /\ Succeeded
    /\ \E p \in species_kingdom_pairs : Contains(p[1], TAB)
    /\ \E p \in species_kingdom_pairs : Contains(p[1], QUOTE) /\ Contains(p[1], LF)

-----------------------------------------------------------------------------
(* C10: at every point of the aggregation the search set does not hold the *)
(* empty string and every pair has a non-empty species and a non-empty     *)
(* kingdom; a row whose three trimmed fields are empty changes neither set *)
(* and adds one to the row counter.                                        *)
SetsHoldNoEmptyText ==
    /\ <<>> \notin species_for_search
    /\ \A p \in species_kingdom_pairs : p[1] # <<>> /\ p[2] # <<>>

EmptyRowStep ==
    (pc = "aggregate" /\ pc' = "aggregate" /\ pos' # pos
     /\ sp' = <<>> /\ genus' = <<>> /\ kingdom' = <<>>)
    => /\ rows' = rows + 1
       /\ UNCHANGED <<species_for_search, species_kingdom_pairs>>

C10_AggregationInvariant == []SetsHoldNoEmptyText /\ [][EmptyRowStep]_vars

C10_Witness ==
    /\ pc = "aggregate"
    /\ rows = 2
    /\ sp = <<>> /\ genus = <<>> /\ kingdom = <<>>
    /\ species_for_search # {}
    /\ species_kingdom_pairs # {}

====
